---- MODULE Spec2Model ----
(***************************************************************************)
(* Duplicate resolution of the ic media-catalog scripts:                   *)
(*   src/immichapi.py  ImmichApi  (duplicate index, catalog calls)         *)
(*   src/oneoff.py     ImmichCli  (pfx, best_copy, dedup, classifiers)     *)
(* A path is a sequence of one-character strings, so that split and join   *)
(* are computed rather than assumed.                                       *)
(***************************************************************************)
EXTENDS Integers, Sequences, FiniteSets, TLC

VARIABLES
    catalog,              \* the catalog service: asset id -> asset record
    dup_cache,            \* ImmichApi.dup_cache
    dups_by_duplicateId,  \* ImmichApi.dups_by_duplicateId
    fetches,              \* number of getAssetDuplicates requests so far
    pc,                   \* position of the running ImmichCli.dedup call
    gi,                   \* dedup: index of the current dup_set in dups
    blessed_prefix,       \* dedup: blessed_prefix of the last dup_set begun
    calls,                \* updateAssets requests sent by the current run
    run,                  \* number of dedup runs started
    pre,                  \* visibility of every asset when the run started
    failures,             \* number of requests that failed
    read,                 \* outcome of the run's GET /duplicates, "none" if not sent
    scored,               \* dup_sets of the run for which best_copy was called
    path,                 \* argument of pfx
    prefix,               \* value returned by pfx
    assets,               \* argument of best_copy
    best,                 \* value returned by best_copy
    dups_arg,             \* argument of the last dups(asset) call
    dups_ret,             \* value returned by the last dups call
    target,               \* argument of find_assets_not_in_library
    found,                \* value returned by find_assets_not_in_library
    single,               \* value returned by find_all_single_stored_assets
    other,                \* a second dedup run, of another engine: its locals
    dryrun,               \* ImmichCli.dryrun
    dry_run               \* ImmichApi.dry_run of self.api

vars == <<catalog, dup_cache, dups_by_duplicateId, fetches, pc, gi,
          blessed_prefix, calls, run, pre, failures, read, scored, path,
          prefix, assets, best, dups_arg, dups_ret, target, found, single,
          other, dryrun, dry_run>>

engineVars == <<catalog, dup_cache, dups_by_duplicateId, fetches>>
runVars    == <<pc, gi, blessed_prefix, calls, run, pre, read, scored>>
dedupVars  == <<pc, gi, blessed_prefix, calls, run, pre, failures, read,
                scored>>
pfxVars    == <<path, prefix>>
scoreVars  == <<assets, best>>
indexVars  == <<dups_arg, dups_ret, target, found, single>>
pairVars   == <<other>>
cliVars    == <<dryrun, dry_run>>

----------------------------------------------------------------------------
(* Bounds of the model *)

MaxPathLen == 7
MaxCandidates == 3
MaxRuns == 2
MaxFailures == 1
MaxFetches == 2

\* Python's None
None == "None"

Min(a, b) == IF a < b THEN a ELSE b

Range(s) == {s[i] : i \in 1..Len(s)}

\* all sequences over S of length n, and of length 1..n
RECURSIVE SeqsOfLen(_, _)
SeqsOfLen(S, n) ==
    IF n = 0 THEN {<<>>} ELSE {Append(s, x) : s \in SeqsOfLen(S, n - 1), x \in S}

SeqsUpTo(S, n) == UNION {SeqsOfLen(S, k) : k \in 1..n}

----------------------------------------------------------------------------
(* str.split, str.join and ImmichCli.pfx *)

\* index of the first occurrence of sep in s, 0 when there is none
FirstSep(s, sep) ==
    IF \E i \in 1..Len(s) : s[i] = sep
    THEN CHOOSE i \in 1..Len(s) : s[i] = sep /\ \A j \in 1..(i - 1) : s[j] # sep
    ELSE 0

\* s.split(sep)
RECURSIVE split(_, _)
split(s, sep) ==
    LET i == FirstSep(s, sep)
    IN  IF i = 0 THEN <<s>>
        ELSE <<SubSeq(s, 1, i - 1)>> \o split(SubSeq(s, i + 1, Len(s)), sep)

\* sep.join(fields)
RECURSIVE join(_, _)
join(sep, fields) ==
    IF fields = <<>> THEN <<>>
    ELSE IF Len(fields) = 1 THEN fields[1]
    ELSE fields[1] \o <<sep>> \o join(sep, Tail(fields))

\* fields[:n]
slice_to(fields, n) == SubSeq(fields, 1, Min(n, Len(fields)))

\* faulty variant of pfx: the slice keeps two fields, not three
pfx_two_fields(p) == join("/", slice_to(split(p, "/"), 2))

\* ImmichCli.pfx: "/".join(path.split("/")[:3])
pfx(p) == join("/", slice_to(split(p, "/"), 3))

----------------------------------------------------------------------------
(* ImmichCli.best_copy *)

\* the two "for idx, asset in enumerate(assets)" running maxima: the list of
\* the positions that hold the largest value seen, starting from max = 0
RECURSIVE scan_max(_, _, _, _)
scan_max(vals, idx, max, idxs) ==
    IF idx > Len(vals) THEN idxs
    ELSE IF vals[idx] > max THEN scan_max(vals, idx + 1, vals[idx], <<idx>>)
    ELSE IF vals[idx] = max THEN scan_max(vals, idx + 1, max, Append(idxs, idx))
    ELSE scan_max(vals, idx + 1, max, idxs)

asset_file_size(asset) == asset.fileSizeInbyte

\* faulty variant of asset_dims: the width stands for the area
asset_dims_width(asset) == asset.exifImageWidth

asset_dims(asset) == asset.exifImageWidth * asset.exifImageHeight

max_size_idx(as) == scan_max([i \in 1..Len(as) |-> asset_file_size(as[i])], 1, 0, <<>>)

max_dims_idx(as) == scan_max([i \in 1..Len(as) |-> asset_dims(as[i])], 1, 0, <<>>)

\* for idx in idxs: scores[idx] += points
RECURSIVE add_points(_, _, _)
add_points(sc, idxs, points) ==
    IF idxs = <<>> THEN sc
    ELSE add_points([sc EXCEPT ![Head(idxs)] = @ + points], Tail(idxs), points)

\* faulty variant of scores: the two weights are exchanged
scores_swapped(as) ==
    add_points(add_points([i \in 1..Len(as) |-> 0], max_size_idx(as), 8),
               max_dims_idx(as), 2)

scores(as) ==
    add_points(add_points([i \in 1..Len(as) |-> 0], max_size_idx(as), 2),
               max_dims_idx(as), 8)

\* max(scores)
max_of(sc) == CHOOSE m \in Range(sc) : \A x \in Range(sc) : x <= m

\* [assets[n] for n in range(len(assets)) if scores[n] == max_score]
RECURSIVE max_scorers(_, _, _, _)
max_scorers(as, sc, max_score, n) ==
    IF n > Len(as) THEN <<>>
    ELSE (IF sc[n] = max_score THEN <<as[n]>> ELSE <<>>)
            \o max_scorers(as, sc, max_score, n + 1)

\* faulty variant of first_timeline: the first max scorer, visible or not
first_timeline_any(s) == Head(s)

\* first element of s whose visibility is timeline (s holds one)
RECURSIVE first_timeline(_)
first_timeline(s) ==
    IF Head(s).visibility = "timeline" THEN Head(s) ELSE first_timeline(Tail(s))

\* first idx with scores[idx] == max_score, 0 when there is none
RECURSIVE first_with_score(_, _, _)
first_with_score(sc, max_score, idx) ==
    IF idx > Len(sc) THEN 0
    ELSE IF sc[idx] = max_score THEN idx
    ELSE first_with_score(sc, max_score, idx + 1)

\* faulty variant of best_copy: the keeper is handed back already restored
best_copy_restored(as) ==
    LET sc  == scores(as)
        top == max_scorers(as, sc, max_of(sc), 1)
    IN  [top[1] EXCEPT !.visibility = "timeline"]

best_copy(as) ==
    LET sc        == scores(as)
        max_score == max_of(sc)
        top       == max_scorers(as, sc, max_score, 1)
        idx       == first_with_score(sc, max_score, 1)
    IN  IF \E n \in 1..Len(top) : top[n].visibility = "timeline"
        THEN first_timeline(top)
        ELSE IF idx # 0 THEN as[idx]
        ELSE as[1]

----------------------------------------------------------------------------
(* Values of the variables an operation does not use *)

IdleEngine == /\ catalog = <<>>
              /\ dup_cache = <<>>
              /\ dups_by_duplicateId = <<>>
              /\ fetches = 0

IdleDedup == /\ pc = "idle"
             /\ gi = 0
             /\ blessed_prefix = <<>>
             /\ calls = <<>>
             /\ run = 0
             /\ pre = <<>>
             /\ failures = 0
             /\ read = "none"
             /\ scored = {}

IdlePfx == path = <<>> /\ prefix = <<>>

IdleScore == assets = <<>> /\ best = <<>>

IdlePair == other = [pc |-> "idle", gi |-> 0, dups |-> <<>>, overlap |-> FALSE]

\* the defaults of ImmichCli.__init__ and ImmichApi.__init__
IdleCli == dryrun = FALSE /\ dry_run = FALSE

IdleIndex == /\ dups_arg = <<>>
             /\ dups_ret = <<>>
             /\ target = <<>>
             /\ found = <<>>
             /\ single = <<>>

----------------------------------------------------------------------------
(* pfx applied to every path of bounded length.  A returned value is kept *)
(* as a one-element sequence; the empty sequence means "not called yet".   *)

PathChars == {"/", "u", "d"}

InitPfx == /\ path \in SeqsUpTo(PathChars, MaxPathLen)
           /\ prefix = <<>>
           /\ IdleEngine /\ IdleDedup /\ IdleScore /\ IdleIndex /\ IdlePair /\ IdleCli

PfxCall == /\ prefix = <<>>
           /\ prefix' = <<pfx(path)>>
           /\ UNCHANGED <<path, engineVars, dedupVars, scoreVars, pairVars, cliVars, indexVars>>

NextPfx == PfxCall

SpecPfx == InitPfx /\ [][NextPfx]_vars

\* the path components: the non-empty fields between the separators
components(p) == SelectSeq(split(p, "/"), LAMBDA f : f # <<>>)

\* the first n components of p, with the leading "/" of an absolute path
first_components(p, n) ==
    (IF p[1] = "/" THEN <<"/">> ELSE <<>>) \o join("/", slice_to(components(p), n))

\* a file path: no empty component ("//") and no trailing "/"
IsAssetPath(p) ==
    /\ p # <<>>
    /\ p[Len(p)] # "/"
    /\ \A i \in 1..(Len(p) - 1) : ~(p[i] = "/" /\ p[i + 1] = "/")

\* C7 as stated: pfx(path) is the first two path components of every asset
\* path, absolute or not.
C7_PrefixIsFirstTwoComponents ==
    (prefix # <<>> /\ IsAssetPath(path)) => prefix[1] = first_components(path, 2)

\* C7 amended: pfx(path) is the first three "/"-separated fields of the
\* path: the first two components (with the leading "/") of an asset path
\* that begins with "/", the first three components of one that does not.
C7_PrefixIsFirstThreeFields ==
    (prefix # <<>> /\ IsAssetPath(path)) =>
        prefix[1] = IF path[1] = "/" THEN first_components(path, 2)
                    ELSE first_components(path, 3)

\* an upload path of four components has been cut to its first three
C7_Witness ==
    /\ path = <<"u", "/", "u", "/", "d", "/", "u">>
    /\ prefix = << <<"u", "/", "u", "/", "d">> >>

----------------------------------------------------------------------------
(* best_copy applied to every candidate sequence of bounded length *)

Visibilities == {"timeline", "archive"}
FileSizes == {0, 1}
Widths == {1, 2}
Heights == {0, 1}

BlessedFile == <<"/", "p", "/", "w", "/", "a">>

Candidate(v, size, w, h) ==
    [id |-> 0, originalPath |-> BlessedFile, libraryId |-> "L1",
     visibility |-> v, duplicateId |-> "g1",
     fileSizeInbyte |-> size, exifImageWidth |-> w, exifImageHeight |-> h]

Candidates ==
    {Candidate(v, size, w, h) :
        v \in Visibilities, size \in FileSizes, w \in Widths, h \in Heights}

\* the candidates of a sequence carry their position as id
InitScorer == /\ \E n \in 1..MaxCandidates :
                   \E q \in [1..n -> Candidates] :
                       assets = [i \in 1..n |-> [q[i] EXCEPT !.id = i]]
              /\ best = <<>>
              /\ IdleEngine /\ IdleDedup /\ IdlePfx /\ IdleIndex /\ IdlePair /\ IdleCli

BestCopyCall == /\ best = <<>>
                /\ best' = <<best_copy(assets)>>
                /\ UNCHANGED <<assets, engineVars, dedupVars, pfxVars, indexVars, pairVars, cliVars>>

NextScorer == BestCopyCall

SpecScorer == InitScorer /\ [][NextScorer]_vars

\* C5: best_copy on a non-empty sequence returns an element of it.
C5_ScorerTotality ==
    best # <<>> => \E i \in 1..Len(assets) : assets[i] = best[1]

\* several candidates, every size and dimension 0, and one was returned
C5_Witness ==
    /\ best # <<>>
    /\ Len(assets) >= 2
    /\ \A i \in 1..Len(assets) : asset_file_size(assets[i]) = 0 /\ asset_dims(assets[i]) = 0
    /\ \E i \in 1..Len(assets) : assets[i] = best[1]

MaxIn(S) == CHOOSE m \in S : \A x \in S : x <= m
MinIn(S) == CHOOSE m \in S : \A x \in S : m <= x

\* the reference score: 2 for the largest byte size plus 8 for the largest area
RefScore(as, i) ==
    (IF as[i].fileSizeInbyte = MaxIn({as[j].fileSizeInbyte : j \in 1..Len(as)})
        THEN 2 ELSE 0)
    + (IF as[i].exifImageWidth * as[i].exifImageHeight
            = MaxIn({as[j].exifImageWidth * as[j].exifImageHeight : j \in 1..Len(as)})
        THEN 8 ELSE 0)

RefTop(as) ==
    {i \in 1..Len(as) : \A j \in 1..Len(as) : RefScore(as, j) <= RefScore(as, i)}

RefBest(as) ==
    LET visible == {i \in RefTop(as) : as[i].visibility = "timeline"}
    IN  as[MinIn(IF visible # {} THEN visible ELSE RefTop(as))]

\* C6: best_copy returns the first top-scoring candidate that is on the
\* timeline if there is one, else the first top-scoring candidate, with the
\* score 2 (largest byte size) + 8 (largest pixel area).
C6_ScorerIsReference == best # <<>> => best[1] = RefBest(assets)

\* the pixel area of a candidate, and the largest of a sequence
Area(a) == a.exifImageWidth * a.exifImageHeight

MaxArea(as) == MaxIn({Area(as[j]) : j \in 1..Len(as)})

\* C22: the candidate best_copy returns has the largest pixel area of the
\* sequence, whatever the byte sizes and visibilities: a larger or a visible
\* candidate of smaller area is never preferred.
C22_AreaDominates == best # <<>> => Area(best[1]) = MaxArea(assets)

\* the returned candidate is archived and the smaller file; the other
\* candidate is visible and the larger file, but has the smaller area
C22_Witness ==
    /\ best # <<>>
    /\ Len(assets) = 2
    /\ best[1] = assets[2]
    /\ assets[2].visibility = "archive" /\ assets[1].visibility = "timeline"
    /\ assets[2].fileSizeInbyte < assets[1].fileSizeInbyte
    /\ Area(assets[1]) < Area(assets[2])

\* the result is a later top scorer on the timeline, the first top scorer
\* being archived, and a candidate with the largest size alone lost
C6_Witness ==
    /\ best # <<>>
    /\ Len(assets) = 3
    /\ best[1] = assets[3]
    /\ assets[2].visibility = "archive"
    /\ RefTop(assets) = {2, 3}
    /\ RefScore(assets, 1) = 2
    /\ RefScore(assets, 3) = 8

----------------------------------------------------------------------------
(* The catalog service and the duplicate index, ImmichApi.dups *)

\* the priority list, cut to three entries: two library folders and the
\* upload location, whose entry has three fields and no leading "/"
path_prefix_priority_list ==
    << <<"/", "p", "/", "w">>,
       <<"/", "p", "/", "m">>,
       <<"u", "/", "u", "/", "d">> >>

FileW == <<"/", "p", "/", "w", "/", "a">>
FileM == <<"/", "p", "/", "m", "/", "a">>
FileX == <<"/", "x", "/", "y", "/", "a">>
FileU == <<"u", "/", "u", "/", "d", "/", "a">>

GroupIds == <<"g1", "g2">>

Asset(i, p, lib, v, dup, size) ==
    [id |-> i, originalPath |-> p, libraryId |-> lib, visibility |-> v,
     duplicateId |-> dup, fileSizeInbyte |-> size,
     exifImageWidth |-> 1, exifImageHeight |-> 1]

\* the ids of the catalog's assets, in ascending order
RECURSIVE ids_in_order(_)
ids_in_order(S) ==
    IF S = {} THEN <<>> ELSE <<MinIn(S)>> \o ids_in_order(S \ {MinIn(S)})

\* GET /duplicates: one entry per duplicate group that has members, in the
\* order of GroupIds, each with the current records of its members
RECURSIVE list_duplicates(_, _)
list_duplicates(cat, gids) ==
    IF gids = <<>> THEN <<>>
    ELSE LET members == {a \in DOMAIN cat : cat[a].duplicateId = Head(gids)}
             entry   == [duplicateId |-> Head(gids),
                         assets |-> [n \in 1..Cardinality(members) |->
                                        cat[ids_in_order(members)[n]]]]
         IN  (IF members = {} THEN <<>> ELSE <<entry>>)
                \o list_duplicates(cat, Tail(gids))

getAssetDuplicates(cat) == list_duplicates(cat, GroupIds)

\* the outcomes of GET /duplicates: the listing; requests raises; an answer
\* that is not a listing (the service's error object, an error page); an
\* error answer without content
FetchOutcomes == {"ok", "raised", "error", "empty"}

\* an error object as the code's loops see it: iterating a dict gives its
\* keys, which are strings and cannot be subscripted with a key
ErrorBody == << [key |-> "message"], [key |-> "statusCode"] >>

\* what get("/duplicates") returns when it returns: resp.json(), or resp
\* itself, which without content iterates like an empty list and is falsy
response(cat, outcome) ==
    CASE outcome = "ok" -> getAssetDuplicates(cat)
      [] outcome = "error" -> ErrorBody
      [] outcome = "empty" -> <<>>

\* dup_set["duplicateId"] raises for an element that is not a dup_set
index_raises(cache) ==
    \E i \in 1..Len(cache) : "duplicateId" \notin DOMAIN cache[i]

\* dup["assets"] raises for an element that is not a dup_set
is_listing(cache) ==
    \A i \in 1..Len(cache) : "assets" \in DOMAIN cache[i]

\* dict((dup_set["duplicateId"], dup_set) for dup_set in self.dup_cache)
index_by_duplicateId(cache) ==
    [d \in {cache[i].duplicateId : i \in 1..Len(cache)} |->
        cache[MaxIn({i \in 1..Len(cache) : cache[i].duplicateId = d})]]

\* "if not self.dup_cache": an empty list counts as not fetched
must_fetch(cache) == cache = <<>>

\* faulty variant of dup_cache_after: the listing is there whatever the
\* request's outcome
dup_cache_after_any(cache, cat, outcome) ==
    IF must_fetch(cache) THEN getAssetDuplicates(cat) ELSE cache

\* lines 48-49 of dups(): the cache after the call; an exception of requests
\* leaves it as it was
dup_cache_after(cache, cat, outcome) ==
    IF must_fetch(cache) /\ outcome # "raised" THEN response(cat, outcome)
    ELSE cache

\* lines 48-50: the prologue of dups() raises, in the request or in the
\* dict comprehension over what the request returned
prologue_raises(cache, cat, outcome) ==
    /\ must_fetch(cache)
    /\ \/ outcome = "raised"
       \/ index_raises(response(cat, outcome))

\* line 50: the index after the call; the assignment is not reached when
\* the comprehension raises
index_after(cache, index, cat, outcome) ==
    IF must_fetch(cache) /\ ~prologue_raises(cache, cat, outcome)
    THEN index_by_duplicateId(response(cat, outcome))
    ELSE index

\* lines 70-72 of get: with dry_run set the request is printed, nothing is
\* sent and {} is returned
sends_request(dr) == ~dr

\* PUT /assets: the catalog after an updateAssets call with the given outcome
updateAssets(cat, assetIds, visibility, outcome) ==
    IF outcome = "ok"
    THEN [a \in DOMAIN cat |->
            IF a \in Range(assetIds) THEN [cat[a] EXCEPT !.visibility = visibility]
            ELSE cat[a]]
    ELSE cat

\* the outcomes of one request: applied; refused by the service (get returns
\* the error body, no exception); or requests raises and the call is left
Outcomes == {"ok", "rejected", "raised"}

----------------------------------------------------------------------------
(* ImmichCli.dedup *)

\* dups = [dup["assets"] for dup in self.api.dups()]; the local is never
\* bound when the comprehension raises
dups ==
    IF is_listing(dup_cache)
    THEN [i \in 1..Len(dup_cache) |-> dup_cache[i].assets]
    ELSE <<>>

\* any(self.pfx(ass["originalPath"]) == prefix for ass in dup_set)
represented(dup_set, pref) ==
    \E n \in 1..Len(dup_set) : pfx(dup_set[n].originalPath) = pref

\* faulty variant of find_blessed_prefix: the loop has no break, the last match stays
RECURSIVE find_blessed_prefix_no_break(_, _)
find_blessed_prefix_no_break(dup_set, prefixes) ==
    IF prefixes = <<>> THEN <<>>
    ELSE LET later == find_blessed_prefix_no_break(dup_set, Tail(prefixes))
         IN  IF later # <<>> THEN later
             ELSE IF represented(dup_set, Head(prefixes)) THEN Head(prefixes)
             ELSE <<>>

\* the loop over the priority list; <<>> stands for None
RECURSIVE find_blessed_prefix(_, _)
find_blessed_prefix(dup_set, prefixes) ==
    IF prefixes = <<>> THEN <<>>
    ELSE IF represented(dup_set, Head(prefixes)) THEN Head(prefixes)
    ELSE find_blessed_prefix(dup_set, Tail(prefixes))

ids_of(s) == [n \in 1..Len(s) |-> s[n].id]

\* faulty variant of to_archive_A: every visible member, blessed or not
to_archive_A_visible(dup_set, bp) ==
    ids_of(SelectSeq(dup_set, LAMBDA ass : ass.visibility = "timeline"))

\* line 634: the visible members outside the blessed prefix
to_archive_A(dup_set, bp) ==
    ids_of(SelectSeq(dup_set, LAMBDA ass :
        ass.visibility = "timeline" /\ pfx(ass.originalPath) # bp))

\* line 638
blessed_copies(dup_set, bp) ==
    SelectSeq(dup_set, LAMBDA ass : pfx(ass.originalPath) = bp)

\* faulty variant of to_archive_B: the keeper is in the batch too
to_archive_B_all(dup_set, keeper) == ids_of(dup_set)

\* line 644: every member of the set but the keeper
to_archive_B(dup_set, keeper) == ids_of(SelectSeq(dup_set, LAMBDA ass : ass # keeper))

keeper_of(dup_set, bp) == best_copy(blessed_copies(dup_set, bp))

\* the dup_set the loop takes next, and what lines 626-638 compute for it
next_set == dups[gi + 1]
next_bp == find_blessed_prefix(next_set, path_prefix_priority_list)

\* faulty variant of after_skip: an unlisted set ends the loop (return for continue)
after_skip_return == "done"

\* line 633: continue
after_skip == "loop"

\* faulty variant of keeper_visibility: the keeper is archived like the rest
keeper_visibility_archive == "archive"

\* line 648: visibility="timeline"
keeper_visibility == "timeline"

\* faulty variant of several: one blessed copy is enough for lines 640-648
several_or_one(copies) == Len(copies) >= 1

\* line 639: len(blessed_copies) > 1
several(copies) == Len(copies) > 1

\* faulty variant of after_call: the statements after line 638 are entered
\* again after a request
after_call_again(outcome, next_pc) ==
    IF outcome = "raised" THEN "aborted" ELSE "afterA"

\* the position after a request: an exception leaves dedup
after_call(outcome, next_pc) == IF outcome = "raised" THEN "aborted" ELSE next_pc

\* one updateAssets request; the log keeps the set it was issued for and the
\* statement that issued it: line 637 ("A"), 647 ("B") or 648 ("restore")
Call(assetIds, visibility, outcome, group, phase) ==
    /\ outcome # "ok" => failures < MaxFailures
    /\ ~sends_request(dry_run) => outcome = "ok"
    /\ catalog' = IF sends_request(dry_run)
                  THEN updateAssets(catalog, assetIds, visibility, outcome)
                  ELSE catalog
    /\ calls' = IF sends_request(dry_run)
                THEN Append(calls, [ids |-> assetIds, visibility |-> visibility,
                                    outcome |-> outcome, group |-> group,
                                    phase |-> phase])
                ELSE calls
    /\ failures' = IF outcome = "ok" THEN failures ELSE failures + 1

\* ImmichCli() : a new engine, with an empty duplicate index
Construct ==
    /\ pc \in {"done", "aborted"}
    /\ run < MaxRuns
    /\ dup_cache' = <<>>
    /\ dups_by_duplicateId' = <<>>
    /\ pc' = "idle"
    /\ gi' = 0
    /\ blessed_prefix' = <<>>
    /\ calls' = <<>>
    /\ read' = "none"
    /\ scored' = {}
    /\ UNCHANGED <<catalog, fetches, run, pre, failures, pfxVars, scoreVars, pairVars, cliVars, indexVars>>

\* line 624: the call of self.api.dups() and the list comprehension over
\* its result; outcome is that of the GET /duplicates request, if one is sent
DedupStart(outcome) ==
    /\ pc \in {"idle", "done", "aborted"}
    /\ run < MaxRuns
    /\ IF must_fetch(dup_cache) THEN outcome # "ok" => failures < MaxFailures
       ELSE outcome = "ok"
    /\ (must_fetch(dup_cache) /\ ~sends_request(dry_run)) => outcome = "empty"
    /\ dup_cache' = dup_cache_after(dup_cache, catalog, outcome)
    /\ dups_by_duplicateId' =
          index_after(dup_cache, dups_by_duplicateId, catalog, outcome)
    /\ fetches' = IF must_fetch(dup_cache) /\ sends_request(dry_run)
                  THEN fetches + 1 ELSE fetches
    /\ read' = IF must_fetch(dup_cache) THEN outcome ELSE "none"
    /\ failures' = IF must_fetch(dup_cache) /\ outcome # "ok"
                   THEN failures + 1 ELSE failures
    /\ pc' = IF \/ prologue_raises(dup_cache, catalog, outcome)
                \/ ~is_listing(dup_cache')
             THEN "aborted" ELSE "loop"
    /\ gi' = 0
    /\ blessed_prefix' = <<>>
    /\ calls' = <<>>
    /\ scored' = {}
    /\ run' = run + 1
    /\ pre' = [a \in DOMAIN catalog |-> catalog[a].visibility]
    /\ UNCHANGED <<catalog, pfxVars, scoreVars, pairVars, cliVars, indexVars>>

\* lines 626-633: no listed prefix in the set
SkipGroup ==
    /\ pc = "loop" /\ gi < Len(dups)
    /\ next_bp = <<>>
    /\ gi' = gi + 1
    /\ blessed_prefix' = next_bp
    /\ pc' = after_skip
    /\ UNCHANGED <<engineVars, calls, run, pre, failures, read, scored, pfxVars,
                   scoreVars, pairVars, cliVars, indexVars>>

\* lines 626-637: the Phase A request
PhaseA(outcome) ==
    /\ pc = "loop" /\ gi < Len(dups)
    /\ next_bp # <<>>
    /\ to_archive_A(next_set, next_bp) # <<>>
    /\ gi' = gi + 1
    /\ blessed_prefix' = next_bp
    /\ Call(to_archive_A(next_set, next_bp), "archive", outcome, gi + 1, "A")
    /\ pc' = after_call(outcome, "afterA")
    /\ UNCHANGED <<dup_cache, dups_by_duplicateId, fetches, run, pre, read,
                   scored, pfxVars, scoreVars, pairVars, cliVars, indexVars>>

\* lines 626-635 with nothing to archive, then 638-639
NoPhaseA ==
    /\ pc = "loop" /\ gi < Len(dups)
    /\ next_bp # <<>>
    /\ to_archive_A(next_set, next_bp) = <<>>
    /\ gi' = gi + 1
    /\ blessed_prefix' = next_bp
    /\ pc' = "afterA"
    /\ UNCHANGED <<engineVars, calls, run, pre, failures, read, scored, pfxVars,
                   scoreVars, pairVars, cliVars, indexVars>>

\* lines 638-647: the Phase B archive request
PhaseBArchive(outcome) ==
    /\ pc = "afterA"
    /\ several(blessed_copies(dups[gi], blessed_prefix))
    /\ to_archive_B(dups[gi], keeper_of(dups[gi], blessed_prefix)) # <<>>
    /\ scored' = scored \cup {gi}
    /\ Call(to_archive_B(dups[gi], keeper_of(dups[gi], blessed_prefix)), "archive", outcome, gi, "B")
    /\ pc' = after_call(outcome, "afterB")
    /\ UNCHANGED <<dup_cache, dups_by_duplicateId, fetches, gi, blessed_prefix,
                   run, pre, read, pfxVars, scoreVars, pairVars, cliVars, indexVars>>

\* line 648: the keeper is put on the timeline
PhaseBRestore(outcome) ==
    /\ pc = "afterB"
    /\ Call(<<keeper_of(dups[gi], blessed_prefix).id>>, keeper_visibility, outcome, gi, "restore")
    /\ pc' = after_call(outcome, "loop")
    /\ UNCHANGED <<dup_cache, dups_by_duplicateId, fetches, gi, blessed_prefix,
                   run, pre, read, scored, pfxVars, scoreVars, pairVars, cliVars, indexVars>>

\* lines 638-639: at most one blessed copy, nothing more for this set
GroupDone ==
    /\ pc = "afterA"
    /\ ~(/\ several(blessed_copies(dups[gi], blessed_prefix))
         /\ to_archive_B(dups[gi], keeper_of(dups[gi], blessed_prefix)) # <<>>)
    /\ scored' = IF several(blessed_copies(dups[gi], blessed_prefix))
                 THEN scored \cup {gi} ELSE scored
    /\ pc' = "loop"
    /\ UNCHANGED <<engineVars, gi, blessed_prefix, calls, run, pre, failures,
                   read, pfxVars, scoreVars, pairVars, cliVars, indexVars>>

\* the loop is exhausted and dedup returns
DedupReturn ==
    /\ pc = "loop" /\ gi = Len(dups)
    /\ pc' = "done"
    /\ UNCHANGED <<engineVars, gi, blessed_prefix, calls, run, pre, failures,
                   read, scored, pfxVars, scoreVars, pairVars, cliVars, indexVars>>

Group1 == {1, 2, 3}
Group2 == {4, 5}

\* two duplicate groups: three members of any visibility, the first two in
\* any folder and the third in the first listed or an unlisted one, the
\* first of either size; a visible library copy with a visible upload copy
Init ==
    /\ \E p \in [{1, 2} -> {FileW, FileM, FileX}],
          q \in [{3} -> {FileW, FileX}],
          v \in [Group1 -> Visibilities],
          z \in [{1} -> FileSizes] :
          catalog = [a \in Group1 \cup Group2 |->
                       IF a \in DOMAIN p
                       THEN Asset(a, p[a], "L1", v[a], "g1", IF a \in DOMAIN z THEN z[a] ELSE 0)
                       ELSE IF a \in DOMAIN q THEN Asset(a, q[a], "L1", v[a], "g1", 0)
                       ELSE IF a = 4 THEN Asset(a, FileM, "L1", "timeline", "g2", 0)
                       ELSE Asset(a, FileU, None, "timeline", "g2", 0)]
    /\ dup_cache = <<>>
    /\ dups_by_duplicateId = <<>>
    /\ fetches = 0
    /\ IdleDedup /\ IdlePfx /\ IdleScore /\ IdleIndex /\ IdlePair /\ IdleCli

Next ==
    \/ Construct
    \/ \E o \in FetchOutcomes : DedupStart(o)
    \/ SkipGroup
    \/ \E o \in Outcomes : PhaseA(o)
    \/ NoPhaseA
    \/ \E o \in Outcomes : PhaseBArchive(o)
    \/ \E o \in Outcomes : PhaseBRestore(o)
    \/ GroupDone
    \/ DedupReturn

Spec == Init /\ [][Next]_vars

\* ImmichCli.__init__, lines 26-29: the argument is kept in self.dryrun and
\* the engine is built without it (line 28, which passes it on, is commented
\* out), so self.api.dry_run keeps the False of ImmichApi.__init__
api_dry_run(d) == FALSE

\* ImmichCli(dryrun=d) for either d, over a catalog of two duplicate groups:
\* three members, each in the first listed folder or an unlisted one, the
\* first two of any visibility; a visible library copy with a visible
\* upload copy
InitDry ==
    /\ \E p \in [Group1 -> {FileW, FileX}],
          v \in [{1, 2} -> Visibilities] :
          catalog = [a \in Group1 \cup Group2 |->
                       IF a \in DOMAIN v THEN Asset(a, p[a], "L1", v[a], "g1", 0)
                       ELSE IF a = 3 THEN Asset(a, p[a], "L1", "timeline", "g1", 0)
                       ELSE IF a = 4 THEN Asset(a, FileM, "L1", "timeline", "g2", 0)
                       ELSE Asset(a, FileU, None, "timeline", "g2", 0)]
    /\ dup_cache = <<>>
    /\ dups_by_duplicateId = <<>>
    /\ fetches = 0
    /\ \E d \in BOOLEAN : dryrun = d /\ dry_run = api_dry_run(d)
    /\ IdleDedup /\ IdlePfx /\ IdleScore /\ IdleIndex /\ IdlePair

SpecDry == InitDry /\ [][Next]_vars

----------------------------------------------------------------------------
(* Properties of dedup *)

PL == path_prefix_priority_list

\* the listed prefix of lowest index that a member's prefix equals, or <<>>
RefBlessed(dup_set) ==
    LET present == {pfx(dup_set[n].originalPath) : n \in 1..Len(dup_set)}
        listed  == {i \in 1..Len(PL) : PL[i] \in present}
    IN  IF listed = {} THEN <<>> ELSE PL[MinIn(listed)]

AllCallsOk == \A c \in 1..Len(calls) : calls[c].outcome = "ok"

\* the members of the k-th set that are on the timeline in the catalog now
VisibleNow(k) ==
    {n \in 1..Len(dups[k]) : catalog[dups[k][n].id].visibility = "timeline"}

Touched(id) == \E c \in 1..Len(calls) : id \in Range(calls[c].ids)

\* C1 as stated: after a run whose calls all succeeded, every set with a
\* blessed prefix has exactly one member on the timeline, a blessed copy, and
\* every other member archived.
C1_Convergence ==
    (pc = "done" /\ AllCallsOk) =>
        \A k \in 1..Len(dups) :
            RefBlessed(dups[k]) # <<>> =>
                /\ Cardinality(VisibleNow(k)) = 1
                /\ \A n \in VisibleNow(k) :
                       pfx(dups[k][n].originalPath) = RefBlessed(dups[k])

\* C2 as stated: a second run that follows a run whose calls all succeeded
\* issues no updateAssets call.
C2_Idempotence == (run = 2 /\ failures = 0) => calls = <<>>

\* the indexed members of the j-th set call for a Phase A request
NeedsPhaseA(j) ==
    /\ RefBlessed(dups[j]) # <<>>
    /\ \E n \in 1..Len(dups[j]) :
         /\ dups[j][n].visibility = "timeline"
         /\ pfx(dups[j][n].originalPath) # RefBlessed(dups[j])

\* C3: a set with no listed prefix is in no updateAssets call of the run,
\* its members keep the visibility they had when the run started, and the
\* run goes on: the later sets have received their requests when it returns.
C3_UnlistedGroupUntouched ==
    \A k \in 1..Len(dups) :
        RefBlessed(dups[k]) = <<>> =>
            /\ \A n \in 1..Len(dups[k]) :
                 /\ ~Touched(dups[k][n].id)
                 /\ catalog[dups[k][n].id].visibility = pre[dups[k][n].id]
            /\ (pc = "done" /\ AllCallsOk) =>
                 \A j \in (k + 1)..Len(dups) :
                     NeedsPhaseA(j) => \E c \in 1..Len(calls) : calls[c].group = j

\* a run has returned; its first set had no listed prefix and a visible
\* member, and the second set got its request
C3_Witness ==
    /\ pc = "done"
    /\ Len(dups) = 2
    /\ RefBlessed(dups[1]) = <<>>
    /\ VisibleNow(1) # {}
    /\ \E c \in 1..Len(calls) : calls[c].group = 2 /\ calls[c].outcome = "ok"

\* C4: the blessed prefix computed for a set is the listed prefix of lowest
\* index among those that equal the prefix of a member, and None exactly
\* when no member's prefix is listed.
C4_BlessedPrefixIsBestListed ==
    (gi >= 1 /\ gi <= Len(dups)) => blessed_prefix = RefBlessed(dups[gi])

\* the members come in the order lower priority, unlisted, higher priority
C4_Witness ==
    /\ gi = 1 /\ Len(dups) >= 1
    /\ pfx(dups[1][1].originalPath) = PL[2]
    /\ pfx(dups[1][2].originalPath) \notin Range(PL)
    /\ pfx(dups[1][3].originalPath) = PL[1]
    /\ blessed_prefix = PL[1]

\* C23 as stated: a dedup run of an ImmichCli constructed with dryrun=True
\* sends no updateAssets request, and every asset has the visibility it had
\* when the run started.
C23_DryRunHonoured ==
    (dryrun /\ run > 0) =>
        /\ calls = <<>>
        /\ \A a \in DOMAIN catalog : catalog[a].visibility = pre[a]

\* what the code does have: dedup sends the same requests whatever dryrun is
\* worth, since the engine's dry_run is never set
DryRunNeverSet == dry_run = FALSE

\* C21 as stated: a set with a member on the timeline when the run started
\* has a member on the timeline in every state of the run and after it.
C21_GroupNeverHidden ==
    \A k \in 1..Len(dups) :
        (\E n \in 1..Len(dups[k]) : pre[dups[k][n].id] = "timeline") =>
            VisibleNow(k) # {}

\* the same for the runs in which every request was applied
NeverHiddenWithoutFailure == failures = 0 => C21_GroupNeverHidden

\* the run has ended, by returning or by an exception
RunEnded == pc \in {"done", "aborted"}

\* no request is sent twice: a failed call is not followed by a call of the
\* same set with the same ids and visibility
NoRetry ==
    \A c \in 1..Len(calls) : \A d \in (c + 1)..Len(calls) :
        calls[c].outcome # "ok" =>
            ~(/\ calls[d].group = calls[c].group
              /\ calls[d].ids = calls[c].ids
              /\ calls[d].visibility = calls[c].visibility)

\* C12 as stated: a failed updateAssets call is not retried and does not end
\* the run: when the run has ended, every set whose indexed members call for
\* a Phase A request has received a request.
C12_PerGroupIsolation ==
    /\ NoRetry
    /\ RunEnded =>
          \A j \in 1..Len(dups) :
              NeedsPhaseA(j) => \E c \in 1..Len(calls) : calls[c].group = j

\* the run sent GET /duplicates and did not get the listing
ReadFailed == read \in {"raised", "error", "empty"}

\* the engine holds a listing that a GET /duplicates request returned
ReadSucceeded ==
    /\ dup_cache # <<>>
    /\ is_listing(dup_cache)
    /\ read \in {"ok", "none"}

PhaseCalls(k, ph) ==
    {c \in 1..Len(calls) : calls[c].group = k /\ calls[c].phase = ph}

\* the indexed members of the k-th set with a prefix equal to, or different
\* from, the set's blessed prefix
BlessedIds(k) ==
    LET rb == RefBlessed(dups[k])
    IN  {dups[k][n].id : n \in {m \in 1..Len(dups[k]) :
            pfx(dups[k][m].originalPath) = rb}}

OtherIds(k) == {dups[k][n].id : n \in 1..Len(dups[k])} \ BlessedIds(k)

VisibleIds(k) ==
    {dups[k][n].id : n \in {m \in 1..Len(dups[k]) :
        dups[k][m].visibility = "timeline"}}

\* C15: the Phase A request of a set archives exactly the members that the
\* index shows on the timeline and whose prefix is not the blessed prefix,
\* whatever their size; no blessed copy is in it; it is issued once when
\* that set of members is not empty and not at all when it is empty.
C15_PhaseABatch ==
    \A k \in 1..Len(dups) :
        LET blessed == BlessedIds(k)
            members == {dups[k][n].id : n \in 1..Len(dups[k])}
            batch   == VisibleIds(k) \cap (members \ blessed)
        IN  /\ \A c \in PhaseCalls(k, "A") :
                 /\ blessed # {}
                 /\ calls[c].visibility = "archive"
                 /\ Range(calls[c].ids) = batch
                 /\ Len(calls[c].ids) = Cardinality(Range(calls[c].ids))
                 /\ Range(calls[c].ids) \cap blessed = {}
                 /\ calls[c].ids # <<>>
            /\ (k <= gi /\ blessed # {} /\ batch # {})
                  => Cardinality(PhaseCalls(k, "A")) = 1
            /\ (blessed = {} \/ batch = {}) => PhaseCalls(k, "A") = {}

\* Phase A archived the first member, the largest file of its set, and the
\* second, and left out the third, a visible blessed copy
C15_Witness ==
    /\ \E c \in PhaseCalls(1, "A") :
         calls[c].ids = <<1, 2>> /\ calls[c].outcome = "ok"
    /\ catalog[1].fileSizeInbyte = 1
    /\ BlessedIds(1) = {3}
    /\ dups[1][3].visibility = "timeline"
    /\ catalog[3].visibility = "timeline"

\* the keeper of the k-th set
Keeper(k) == best_copy(blessed_copies(dups[k], RefBlessed(dups[k])))

\* C16 as stated: the Phase B archive request holds exactly the blessed
\* copies other than the keeper.
C16_PhaseBOnlyBlessed ==
    \A k \in 1..Len(dups) : \A c \in PhaseCalls(k, "B") :
        Range(calls[c].ids) = BlessedIds(k) \ {Keeper(k).id}

\* C16, amended: the Phase B archive request, issued for a set with more
\* than one blessed copy, holds every member of the set other than the
\* keeper, blessed or not, each once, and never the keeper.
C16_PhaseBAllButKeeper ==
    \A k \in 1..Len(dups) : \A c \in PhaseCalls(k, "B") :
        LET members == {dups[k][n].id : n \in 1..Len(dups[k])}
            keeper  == Keeper(k).id
        IN  /\ Cardinality(BlessedIds(k)) > 1
            /\ calls[c].visibility = "archive"
            /\ Range(calls[c].ids) = members \ {keeper}
            /\ Len(calls[c].ids) = Cardinality(Range(calls[c].ids))
            /\ keeper \notin Range(calls[c].ids)

\* a Phase B request with a blessed copy and a member of another folder
C16_Witness ==
    \E c \in PhaseCalls(1, "B") :
        /\ Range(calls[c].ids) \cap BlessedIds(1) # {}
        /\ Range(calls[c].ids) \cap OtherIds(1) # {}
        /\ calls[c].outcome = "ok"

\* both Phase B requests of the k-th set were applied
PhaseBApplied(k) ==
    /\ \E c \in PhaseCalls(k, "B") : calls[c].outcome = "ok"
    /\ \E c \in PhaseCalls(k, "restore") : calls[c].outcome = "ok"

\* C17: when both Phase B requests of a set with more than one blessed copy
\* were applied, the keeper chosen by best_copy is on the timeline and every
\* other blessed copy is archived, whatever they were before the run.
C17_KeeperRestored ==
    \A k \in 1..Len(dups) :
        (PhaseBApplied(k) /\ Cardinality(BlessedIds(k)) > 1) =>
            LET keeper == Keeper(k).id
            IN  /\ catalog[keeper].visibility = "timeline"
                /\ \A b \in BlessedIds(k) \ {keeper} :
                       catalog[b].visibility = "archive"

\* the keeper was archived and another blessed copy visible when the run
\* started, and Phase B has put the keeper on the timeline
C17_Witness ==
    /\ Len(dups) >= 1
    /\ Cardinality(BlessedIds(1)) > 1
    /\ PhaseBApplied(1)
    /\ pre[Keeper(1).id] = "archive"
    /\ \E b \in BlessedIds(1) \ {Keeper(1).id} : pre[b] = "timeline"
    /\ catalog[Keeper(1).id].visibility = "timeline"

\* C18: the only blessed copy of a set is in no updateAssets call of the
\* run and keeps its visibility, timeline or archive, and best_copy is not
\* called for the set.
C18_SingleBlessedUntouched ==
    \A k \in 1..Len(dups) :
        LET blessed == BlessedIds(k)
        IN  Cardinality(blessed) = 1 =>
            /\ \A b \in blessed :
                 /\ ~Touched(b)
                 /\ catalog[b].visibility = pre[b]
            /\ k \notin scored
            /\ PhaseCalls(k, "B") = {}
            /\ PhaseCalls(k, "restore") = {}

\* the run has returned; the only blessed copy of the first set is archived
\* and stayed so while Phase A archived the others; the second set has one
\* blessed copy too
C18_Witness ==
    /\ pc = "done"
    /\ Len(dups) = 2
    /\ Cardinality(BlessedIds(1)) = 1
    /\ Cardinality(BlessedIds(2)) = 1
    /\ \A b \in BlessedIds(1) : catalog[b].visibility = "archive"
    /\ \E c \in PhaseCalls(1, "A") : calls[c].outcome = "ok"

\* the place of a statement in the loop body
PhaseRank(ph) == CASE ph = "A" -> 1 [] ph = "B" -> 2 [] ph = "restore" -> 3

\* C19: the calls of a run come set by set in the order of the index, no
\* call of a set after a call of a later set; within a set Phase A comes
\* before Phase B and the request that puts the keeper on the timeline comes
\* after every archive request; each statement issues at most one request.
C19_CallOrder ==
    /\ \A c \in 1..Len(calls) :
         /\ calls[c].group \in 1..gi
         /\ calls[c].visibility =
              (IF calls[c].phase = "restore" THEN "timeline" ELSE "archive")
    /\ \A c \in 1..Len(calls) : \A d \in (c + 1)..Len(calls) :
         \/ calls[c].group < calls[d].group
         \/ /\ calls[c].group = calls[d].group
            /\ PhaseRank(calls[c].phase) < PhaseRank(calls[d].phase)

\* all three requests of the first set, then the Phase A request of the second
C19_Witness ==
    /\ Len(calls) = 4
    /\ [c \in 1..4 |-> <<calls[c].group, calls[c].phase>>] =
          << <<1, "A">>, <<1, "B">>, <<1, "restore">>, <<2, "A">> >>

----------------------------------------------------------------------------
(* The duplicate index and the presence classifier on one engine:          *)
(* dups(), dups(asset), find_assets_not_in_library, and a visibility        *)
(* change in the catalog between the calls.                                 *)

\* ImmichCli.upload_device_id, the key of the upload pseudo-library
upload_device_id == "63ae08d4"

\* the libraries of GET /libraries, in the order listed
Libraries == <<"L1", "L2">>

\* the keys of get_all_libraries(), in dict order
get_all_libraries == Append(Libraries, upload_device_id)

\* searchAssets(libraryId=...) or, for the upload key, searchAssets(deviceId=...):
\* the current records of the library's assets, the upload location holding
\* the assets that have no library
get_library_assets(cat, libraryId) ==
    LET owner   == IF libraryId = upload_device_id THEN None ELSE libraryId
        members == {a \in DOMAIN cat : cat[a].libraryId = owner}
    IN  [n \in 1..Cardinality(members) |-> cat[ids_in_order(members)[n]]]

\* "dup_asset != asset" compares the whole records
same_asset(dup_asset, asset) == dup_asset = asset

\* lines 55-58 of dups(asset), on the index built by the first lines
dups_of(index, asset) ==
    IF asset.duplicateId \notin DOMAIN index THEN <<>>
    ELSE SelectSeq(index[asset.duplicateId].assets,
                LAMBDA dup_asset : ~same_asset(dup_asset, asset))

\* lines 493-497: does the asset found under libraryId go into the result
not_in_library(index, libraryId, asset) ==
    \/ asset.duplicateId = None
    \/ libraryId \notin {d.libraryId : d \in Range(dups_of(index, asset))}

\* the loop over the libraries, lines 489-497
RECURSIVE assets_not_in(_, _, _, _)
assets_not_in(cat, index, libs, targetLibraryId) ==
    IF libs = <<>> THEN <<>>
    ELSE (IF Head(libs) = targetLibraryId THEN <<>>
          ELSE SelectSeq(get_library_assets(cat, Head(libs)),
                      LAMBDA asset : not_in_library(index, Head(libs), asset)))
            \o assets_not_in(cat, index, Tail(libs), targetLibraryId)

find_assets_not_in_library(cat, index, targetLibraryId) ==
    IF targetLibraryId = None THEN <<>>
    ELSE assets_not_in(cat, index, get_all_libraries, targetLibraryId)

\* library["name"] of the records of GET /libraries
LibraryNames == [l \in Range(Libraries) |-> IF l = "L1" THEN "one" ELSE "two"]

\* get_all_libraries()[libraryId]["name"]
library_name(libraryId) ==
    IF libraryId = upload_device_id THEN "upload" ELSE LibraryNames[libraryId]

\* faulty variant of is_single_stored: the test of line 479 is left out
is_single_stored_always(asset) == TRUE

\* line 479: asset.get("duplicateId", None) is None
is_single_stored(asset) == asset.duplicateId = None

\* the loops of lines 477-480: (library["name"], asset) for every library
\* key in dict order and every asset enumerated under it
RECURSIVE single_stored_in(_, _)
single_stored_in(cat, libs) ==
    IF libs = <<>> THEN <<>>
    ELSE LET hits == SelectSeq(get_library_assets(cat, Head(libs)),
                         LAMBDA asset : is_single_stored(asset))
         IN  [n \in 1..Len(hits) |-> <<library_name(Head(libs)), hits[n]>>]
                \o single_stored_in(cat, Tail(libs))

find_all_single_stored_assets(cat) == single_stored_in(cat, get_all_libraries)

\* find_assets_not_in_library reaches self.dups(asset) for an enumerated
\* asset that has a duplicateId
find_calls_dups(cat, targetLibraryId) ==
    /\ targetLibraryId # None
    /\ \E a \in DOMAIN cat :
         /\ cat[a].duplicateId # None
         /\ cat[a].libraryId # targetLibraryId

IndexAssets == {1, 2, 3}

\* three visible assets, each in a library or in the upload location, each
\* in the duplicate group g1 or in none
InitIndex ==
    /\ \E l \in [IndexAssets -> {"L1", "L2", None}],
          d \in [IndexAssets -> {"g1", None}] :
          catalog = [a \in IndexAssets |->
                       Asset(a, IF l[a] = None THEN FileU ELSE FileW, l[a],
                             "timeline", d[a], 0)]
    /\ dup_cache = <<>>
    /\ dups_by_duplicateId = <<>>
    /\ fetches = 0
    /\ IdleDedup /\ IdlePfx /\ IdleScore /\ IdleIndex /\ IdlePair /\ IdleCli

\* lines 49-50: the request with the given outcome, and the index build
Fetch(outcome) ==
    /\ outcome # "ok" => failures < MaxFailures
    /\ ~sends_request(dry_run) => outcome = "empty"
    /\ dup_cache' = dup_cache_after(dup_cache, catalog, outcome)
    /\ dups_by_duplicateId' =
          index_after(dup_cache, dups_by_duplicateId, catalog, outcome)
    /\ fetches' = IF sends_request(dry_run) THEN fetches + 1 ELSE fetches
    /\ failures' = IF outcome = "ok" THEN failures ELSE failures + 1

\* the first three lines of dups(): fetch and index when the cache is falsy
DupsPrologue(outcome) ==
    IF must_fetch(dup_cache) THEN Fetch(outcome)
    ELSE /\ outcome = "ok"
         /\ UNCHANGED <<dup_cache, dups_by_duplicateId, fetches, failures>>

\* dups(); a call that raises returns nothing
DupsAll(outcome) ==
    /\ fetches < MaxFetches
    /\ DupsPrologue(outcome)
    /\ dups_arg' = <<>>
    /\ dups_ret' = IF prologue_raises(dup_cache, catalog, outcome) THEN <<>>
                   ELSE <<dup_cache'>>
    /\ target' = <<>> /\ found' = <<>> /\ single' = <<>>
    /\ UNCHANGED <<catalog, runVars, pfxVars, scoreVars, pairVars, cliVars>>

\* dups(asset), the asset being a record the caller has just read
DupsFor(a, outcome) ==
    /\ fetches < MaxFetches
    /\ DupsPrologue(outcome)
    /\ dups_arg' = <<catalog[a]>>
    /\ dups_ret' = IF prologue_raises(dup_cache, catalog, outcome) THEN <<>>
                   ELSE <<dups_of(dups_by_duplicateId', catalog[a])>>
    /\ target' = <<>> /\ found' = <<>> /\ single' = <<>>
    /\ UNCHANGED <<catalog, runVars, pfxVars, scoreVars, pairVars, cliVars>>

\* find_assets_not_in_library(targetLibraryId); the exception of its first
\* self.dups(asset) call leaves it
FindNotInLibrary(t, outcome) ==
    /\ fetches < MaxFetches
    /\ IF find_calls_dups(catalog, t) THEN DupsPrologue(outcome)
       ELSE /\ outcome = "ok"
            /\ UNCHANGED <<dup_cache, dups_by_duplicateId, fetches, failures>>
    /\ target' = <<t>>
    /\ found' = IF /\ find_calls_dups(catalog, t)
                   /\ prologue_raises(dup_cache, catalog, outcome)
                THEN <<>>
                ELSE <<find_assets_not_in_library(catalog, dups_by_duplicateId', t)>>
    /\ dups_arg' = <<>> /\ dups_ret' = <<>> /\ single' = <<>>
    /\ UNCHANGED <<catalog, runVars, pfxVars, scoreVars, pairVars, cliVars>>

\* find_all_single_stored_assets()
FindSingleStored ==
    /\ single' = <<find_all_single_stored_assets(catalog)>>
    /\ dups_arg' = <<>> /\ dups_ret' = <<>>
    /\ target' = <<>> /\ found' = <<>>
    /\ UNCHANGED <<engineVars, dedupVars, pfxVars, scoreVars, pairVars, cliVars>>

\* updateAssets([id], visibility="archive") between two calls
ArchiveAsset(a) ==
    /\ catalog[a].visibility = "timeline"
    /\ catalog' = updateAssets(catalog, <<a>>, "archive", "ok")
    /\ UNCHANGED <<dup_cache, dups_by_duplicateId, fetches, dedupVars, pfxVars,
                   scoreVars, pairVars, cliVars, indexVars>>

NextIndex ==
    \/ \E o \in FetchOutcomes : DupsAll(o)
    \/ \E a \in IndexAssets, o \in FetchOutcomes : DupsFor(a, o)
    \/ \E t \in {"L1", "L2", None}, o \in FetchOutcomes : FindNotInLibrary(t, o)
    \/ FindSingleStored
    \/ \E a \in {1} : ArchiveAsset(a)

SpecIndex == InitIndex /\ [][NextIndex]_vars

\* C8 as stated: dups(asset) returns the indexed members of the asset's
\* group whose id differs from the asset's id, and nothing when the asset
\* has no duplicateId or its duplicateId is not indexed.
C8_DupsExcludesSelf ==
    (dups_arg # <<>> /\ dups_ret # <<>>) =>
        LET asset == dups_arg[1]
        IN  dups_ret[1] =
              IF asset.duplicateId \notin DOMAIN dups_by_duplicateId THEN <<>>
              ELSE SelectSeq(dups_by_duplicateId[asset.duplicateId].assets,
                          LAMBDA m : m.id # asset.id)

\* C9 as stated: one engine whose requests all succeeded has requested the
\* duplicate listing at most once.
C9_FetchedAtMostOnce == failures = 0 => fetches <= 1

\* the siblings of an asset: the other members of its duplicate group
Siblings(a) ==
    {b \in DOMAIN catalog : b # a /\ catalog[b].duplicateId = catalog[a].duplicateId}

\* C10 as stated: find_assets_not_in_library(target) returns exactly the
\* assets outside the target library that have no duplicateId or have no
\* sibling in the target library.
C10_NotInLibrary ==
    (found # <<>> /\ target # <<>> /\ target # <<None>>) =>
        {r.id : r \in Range(found[1])} =
            {a \in DOMAIN catalog :
                /\ catalog[a].libraryId # target[1]
                /\ \/ catalog[a].duplicateId = None
                   \/ \A b \in Siblings(a) : catalog[b].libraryId # target[1]}

\* the name under which an asset is owned: its library's, or "upload"
OwnerName(a) ==
    IF catalog[a].libraryId = None THEN "upload"
    ELSE LibraryNames[catalog[a].libraryId]

C20_NoPartialIndex ==
    dups_ret # <<>> =>
        /\ is_listing(dup_cache)
        /\ DOMAIN dups_by_duplicateId =
              {dup_cache[i].duplicateId : i \in 1..Len(dup_cache)}

----------------------------------------------------------------------------
(* Two dedup runs at once on one catalog: the run of the engine above and  *)
(* a second run, of an engine of its own, whose steps come between the     *)
(* first run's.  No other writer, and every request is applied.            *)

\* s in reverse order
RECURSIVE reversed(_)
reversed(s) == IF s = <<>> THEN <<>> ELSE Append(reversed(Tail(s)), Head(s))

\* dups as the second run's GET /duplicates gives it: the service fixes no
\* order for the members of a set, they come in the order of the first
\* read or in the reverse order
listed_again(cat, rev) ==
    LET listing == getAssetDuplicates(cat)
    IN  [i \in 1..Len(listing) |->
            IF rev THEN reversed(listing[i].assets) ELSE listing[i].assets]

\* the second run's dup_set, before and after line 625 takes it
other_next == other.dups[other.gi + 1]
other_set == other.dups[other.gi]

\* lines 626-630 for the second run
other_bp(dup_set) == find_blessed_prefix(dup_set, path_prefix_priority_list)

other_keeper(dup_set) == keeper_of(dup_set, other_bp(dup_set))

\* line 624 of the second run, at any point after the first run's read;
\* overlap: the first run has not returned yet
OtherStart(rev) ==
    /\ pc \in {"loop", "afterA", "afterB", "done"}
    /\ other.pc = "idle"
    /\ other' = [pc |-> "loop", gi |-> 0, dups |-> listed_again(catalog, rev),
                 overlap |-> pc # "done"]
    /\ UNCHANGED <<engineVars, dedupVars, pfxVars, cliVars, scoreVars, indexVars>>

OtherSkipGroup ==
    /\ other.pc = "loop" /\ other.gi < Len(other.dups)
    /\ other_bp(other_next) = <<>>
    /\ other' = [other EXCEPT !.gi = @ + 1]
    /\ UNCHANGED <<engineVars, dedupVars, pfxVars, cliVars, scoreVars, indexVars>>

OtherPhaseA ==
    /\ other.pc = "loop" /\ other.gi < Len(other.dups)
    /\ other_bp(other_next) # <<>>
    /\ to_archive_A(other_next, other_bp(other_next)) # <<>>
    /\ catalog' = updateAssets(catalog, to_archive_A(other_next, other_bp(other_next)),
                               "archive", "ok")
    /\ other' = [other EXCEPT !.gi = @ + 1, !.pc = "afterA"]
    /\ UNCHANGED <<dup_cache, dups_by_duplicateId, fetches, dedupVars, pfxVars, cliVars,
                   scoreVars, indexVars>>

OtherNoPhaseA ==
    /\ other.pc = "loop" /\ other.gi < Len(other.dups)
    /\ other_bp(other_next) # <<>>
    /\ to_archive_A(other_next, other_bp(other_next)) = <<>>
    /\ other' = [other EXCEPT !.gi = @ + 1, !.pc = "afterA"]
    /\ UNCHANGED <<engineVars, dedupVars, pfxVars, cliVars, scoreVars, indexVars>>

OtherPhaseBArchive ==
    /\ other.pc = "afterA"
    /\ several(blessed_copies(other_set, other_bp(other_set)))
    /\ to_archive_B(other_set, other_keeper(other_set)) # <<>>
    /\ catalog' = updateAssets(catalog, to_archive_B(other_set, other_keeper(other_set)),
                               "archive", "ok")
    /\ other' = [other EXCEPT !.pc = "afterB"]
    /\ UNCHANGED <<dup_cache, dups_by_duplicateId, fetches, dedupVars, pfxVars, cliVars,
                   scoreVars, indexVars>>

OtherPhaseBRestore ==
    /\ other.pc = "afterB"
    /\ catalog' = updateAssets(catalog, <<other_keeper(other_set).id>>,
                               keeper_visibility, "ok")
    /\ other' = [other EXCEPT !.pc = "loop"]
    /\ UNCHANGED <<dup_cache, dups_by_duplicateId, fetches, dedupVars, pfxVars, cliVars,
                   scoreVars, indexVars>>

OtherGroupDone ==
    /\ other.pc = "afterA"
    /\ ~(/\ several(blessed_copies(other_set, other_bp(other_set)))
         /\ to_archive_B(other_set, other_keeper(other_set)) # <<>>)
    /\ other' = [other EXCEPT !.pc = "loop"]
    /\ UNCHANGED <<engineVars, dedupVars, pfxVars, cliVars, scoreVars, indexVars>>

OtherReturn ==
    /\ other.pc = "loop" /\ other.gi = Len(other.dups)
    /\ other' = [other EXCEPT !.pc = "done"]
    /\ UNCHANGED <<engineVars, dedupVars, pfxVars, cliVars, scoreVars, indexVars>>

\* one duplicate group of three files of one size: the first two each in the
\* first listed folder or an unlisted one, the third unlisted, any visibility
InitPair ==
    /\ \E p \in [{1, 2} -> {FileW, FileX}], v \in [Group1 -> Visibilities] :
          catalog = [a \in Group1 |->
                       Asset(a, IF a \in DOMAIN p THEN p[a] ELSE FileX, "L1",
                             v[a], "g1", 0)]
    /\ dup_cache = <<>>
    /\ dups_by_duplicateId = <<>>
    /\ fetches = 0
    /\ IdleDedup /\ IdlePfx /\ IdleScore /\ IdleIndex /\ IdlePair /\ IdleCli

NextPair ==
    \/ run = 0 /\ DedupStart("ok")
    \/ SkipGroup
    \/ PhaseA("ok")
    \/ NoPhaseA
    \/ PhaseBArchive("ok")
    \/ PhaseBRestore("ok")
    \/ GroupDone
    \/ DedupReturn
    \/ \E rev \in BOOLEAN : OtherStart(rev)
    \/ OtherSkipGroup
    \/ OtherPhaseA
    \/ OtherNoPhaseA
    \/ OtherPhaseBArchive
    \/ OtherPhaseBRestore
    \/ OtherGroupDone
    \/ OtherReturn

SpecPair == InitPair /\ [][NextPair]_vars

\* both runs have returned, and the group has more than one blessed copy
PairEnded == pc = "done" /\ other.pc = "done"

SeveralBlessed == Len(dups) = 1 /\ Cardinality(BlessedIds(1)) > 1

\* the members of the group that are on the timeline now
VisibleMembers == {dups[1][n].id : n \in VisibleNow(1)}

====
